---- MODULE Spec2Model ----
(***************************************************************************)
(* Model of src/main.py: the two song-generation tools                     *)
(* generate_song_base64 and generate_song_file, the upstream ElevenLabs    *)
(* client they call, the wall clock and the temp directory they write to.  *)
(*                                                                         *)
(* Both tools are "async def" bodies without a single await, so the event  *)
(* loop runs one call to completion before the next starts: at most one    *)
(* call is in progress.  A call is split at its blocking operations (the   *)
(* voice-list probe, the synthesis request, every chunk of the response,   *)
(* the file write) so that the order of these operations is visible.       *)
(*                                                                         *)
(* Strings are sequences of characters.  The characters that matter to     *)
(* str.strip() and str.split() are kept apart: a letter, two whitespace    *)
(* characters, and the musical note U+266A.  Report strings are sequences  *)
(* of parts whose first part is the marker the f-string starts with.       *)
(***************************************************************************)
EXTENDS Integers, Sequences, FiniteSets, TLC

VARIABLES ELEVENLABS_API_KEY, client, now, files, reports, calls,
          pc, tool, lyrics, processed_lyrics, net, received, audio_bytes,
          drained, wrote, raised, escaped, result

globals == <<ELEVENLABS_API_KEY, client, now, files, reports, calls>>
locals == <<pc, tool, lyrics, processed_lyrics, net, received, audio_bytes,
            drained, wrote, raised, escaped, result>>
vars == <<ELEVENLABS_API_KEY, client, now, files, reports, calls,
          pc, tool, lyrics, processed_lyrics, net, received, audio_bytes,
          drained, wrote, raised, escaped, result>>

----------------------------------------------------------------------------
(* Bounds *)

MaxLen == 9
MaxCalls == 2
MaxClock == 2
MaxChunks == 2
TicksPerSecond == 2

----------------------------------------------------------------------------
(* Characters and strings *)

SP == " "
NL == "nl"
NOTE == "note"
Letter == "a"

Whitespace == {SP, NL}

OkMark == "ok-mark"
FailMark == "fail-mark"

PreviewLen == 50
B64PreviewLen == 100
MinWords == 5

IsSpace(c) == c \in Whitespace

RECURSIVE lstrip(_)
lstrip(s) ==
    IF s = <<>> THEN s
    ELSE IF IsSpace(Head(s)) THEN lstrip(Tail(s)) ELSE s

RECURSIVE rstrip(_)
rstrip(s) ==
    IF s = <<>> THEN s
    ELSE IF IsSpace(s[Len(s)]) THEN rstrip(SubSeq(s, 1, Len(s) - 1)) ELSE s

(* str.strip() with no argument *)
strip(s) == rstrip(lstrip(s))

(* str.split() with no argument: the list of maximal runs of non-whitespace *)
RECURSIVE splitFrom(_, _, _)
splitFrom(s, cur, acc) ==
    IF s = <<>> THEN (IF cur = <<>> THEN acc ELSE Append(acc, cur))
    ELSE IF IsSpace(Head(s))
         THEN splitFrom(Tail(s), <<>>, IF cur = <<>> THEN acc ELSE Append(acc, cur))
         ELSE splitFrom(Tail(s), Append(cur, Head(s)), acc)

split(s) == splitFrom(s, <<>>, <<>>)

(* f"♪ {p} ♪\n" *)
NoteLine(p) == <<NOTE, SP>> \o p \o <<SP, NOTE, NL>>

(* seq * n *)
RECURSIVE Repeat(_, _)
Repeat(s, n) == IF n <= 0 THEN <<>> ELSE s \o Repeat(s, n - 1)

(* the comparison of line 66 made inclusive *)
ShortLyrics_mut(p) == Len(split(p)) <= MinWords

ShortLyrics(p) == Len(split(p)) < MinWords

PadCount == 2

(* lines 63-67 and 128-130 *)
Normalize(l) ==
    LET p == strip(l)
    IN IF ShortLyrics(p) THEN Repeat(NoteLine(p), PadCount) ELSE p

(* s[:n] *)
Prefix(s, n) == SubSeq(s, 1, IF Len(s) < n THEN Len(s) ELSE n)

(* not lyrics or not lyrics.strip() *)
EmptyInput(l) == l = <<>> \/ strip(l) = <<>>

----------------------------------------------------------------------------
(* The environment: upstream API, clock, temp directory *)

Tools == {"generate_song_base64", "generate_song_file"}

Bytes == {1, 2}
Chunks == {<<b>> : b \in Bytes}

UpstreamErrors == {[type |-> "ApiError", msg |-> "upstream"]}
FileErrors == {[type |-> "OSError", msg |-> "disk"]}
NoExc == [step |-> "none", type |-> "", msg |-> ""]

Seconds == 0 .. (MaxClock \div TicksPerSecond)

(* datetime.now().strftime("%Y%m%d_%H%M%S"): the instant cut to whole seconds *)
strftime(t) == t \div TicksPerSecond

(* os.path.join(tempfile.gettempdir(), f"song_{timestamp}.mp3"): one path per second *)
AudioPath(t) == strftime(t)

Absent == [exists |-> FALSE, data |-> <<>>]

(* a write that loses the last byte of the buffer *)
FileWrite_mut(fs, path, data) ==
    [fs EXCEPT ![path] = [exists |-> TRUE,
                          data |-> SubSeq(data, 1, IF data = <<>> THEN 0 ELSE Len(data) - 1)]]

(* with open(path, "wb") as f: f.write(data) *)
FileWrite(fs, path, data) == [fs EXCEPT ![path] = [exists |-> TRUE, data |-> data]]

exists(fs, path) == fs[path].exists
getsize(fs, path) == Len(fs[path].data)

(* len(base64.b64encode(b)[:100]): four characters per started group of three bytes *)
B64Preview(b) ==
    LET n == 4 * ((Len(b) + 2) \div 3)
    IN IF n < B64PreviewLen THEN n ELSE B64PreviewLen

----------------------------------------------------------------------------
(* Report strings *)

NoKeyBase64 == <<FailMark, "Error: ELEVENLABS_API_KEY not found in environment variables. Please check your .env file.">>
NoKeyFile == <<FailMark, "Error: ELEVENLABS_API_KEY not configured">>
NoClient == <<FailMark, "Error: ElevenLabs client not initialized">>
NoLyrics == <<FailMark, "Error: No lyrics provided">>
NoAudio == <<FailMark, "Error: No audio data received from API">>
NotCreated == <<FailMark, "Error: File was not created">>

ConnectError(e) == <<FailMark, "Error connecting to ElevenLabs API:", e.msg>>
GenError(e) == <<FailMark, "Error during audio generation:", e.type, e.msg>>
UnexpectedError(e) == <<FailMark, "Unexpected error:", e.type, e.msg>>
FileToolError(e) == <<FailMark, "Error:", e.type, e.msg>>

Base64Success(l, b) ==
    <<OkMark, "Song generated successfully!", Prefix(l, PreviewLen), Len(b), B64Preview(b)>>
FileSuccess(path, size, l) ==
    <<OkMark, "Song saved to file!", path, size, Prefix(l, PreviewLen)>>

(* generate_song_file without its configuration checks *)
ConfigCheck_mut(t, key, cl) ==
    IF t = "generate_song_file" THEN <<>>
    ELSE IF key = "" THEN NoKeyBase64
    ELSE IF cl = "None" THEN NoClient
    ELSE <<>>

(* The configuration checks at the head of each tool; <<>> when they pass *)
ConfigCheck(t, key, cl) ==
    IF key = "" THEN (IF t = "generate_song_base64" THEN NoKeyBase64 ELSE NoKeyFile)
    ELSE IF cl = "None" THEN NoClient
    ELSE <<>>

(* The input check; only generate_song_base64 has one *)
InputCheck(t, l) ==
    IF t = "generate_song_base64" /\ EmptyInput(l) THEN NoLyrics ELSE <<>>

(* generate_song_base64 without its probe *)
FirstStep_mut(t) == "generate"

(* The first blocking operation of a tool: only generate_song_base64 probes *)
FirstStep(t) == IF t = "generate_song_base64" THEN "probe" ELSE "generate"

(* generate_song_file with the file write outside its try block *)
CaughtBy_mut(t, step) ==
    IF t = "generate_song_base64"
    THEN (IF step = "probe" THEN "api_error"
          ELSE IF step \in {"generate", "drain"} THEN "gen_error"
          ELSE "e")
    ELSE IF step \in {"open", "write"} THEN "none" ELSE "e"

(* The except clause enclosing a step, by the nesting of the try blocks *)
CaughtBy(t, step) ==
    IF t = "generate_song_base64"
    THEN (IF step = "probe" THEN "api_error"
          ELSE IF step \in {"generate", "drain"} THEN "gen_error"
          ELSE "e")
    ELSE "e"

(* an except clause at line 107 that reports what was received so far *)
ExceptReport_mut(t, clause, e) ==
    IF clause = "api_error" THEN ConnectError(e)
    ELSE IF clause = "gen_error" THEN Base64Success(lyrics, received)
    ELSE IF t = "generate_song_base64" THEN UnexpectedError(e)
    ELSE FileToolError(e)

ExceptReport(t, clause, e) ==
    IF clause = "api_error" THEN ConnectError(e)
    ELSE IF clause = "gen_error" THEN GenError(e)
    ELSE IF t = "generate_song_base64" THEN UnexpectedError(e)
    ELSE FileToolError(e)

----------------------------------------------------------------------------
(* State machine *)

Init ==
    /\ ELEVENLABS_API_KEY \in {"", "key"}
    /\ client = (IF ELEVENLABS_API_KEY # "" THEN "client" ELSE "None")
    /\ now = 0
    /\ files = [p \in Seconds |-> Absent]
    /\ reports = {}
    /\ calls = 0
    /\ pc = "idle"
    /\ tool = "none"
    /\ lyrics = <<>>
    /\ processed_lyrics = <<>>
    /\ net = <<>>
    /\ received = <<>>
    /\ audio_bytes = <<>>
    /\ drained = "no"
    /\ wrote = FALSE
    /\ raised = NoExc
    /\ escaped = FALSE
    /\ result = <<>>

(* An exception e raised at a step: the enclosing except clause returns its
   report; with no enclosing clause the exception leaves the tool *)
Throw(step, e) ==
    LET clause == CaughtBy(tool, step)
    IN /\ raised' = [step |-> step, type |-> e.type, msg |-> e.msg]
       /\ pc' = "done"
       /\ IF clause = "none"
          THEN escaped' = TRUE /\ result' = <<>>
          ELSE escaped' = FALSE /\ result' = ExceptReport(tool, clause, e)

(* Entry of a tool up to its first blocking operation: lines 51-69, 121-130 *)
Call(t, l) ==
    /\ pc = "idle"
    /\ calls < MaxCalls
    /\ calls' = calls + 1
    /\ tool' = t
    /\ lyrics' = l
    /\ LET cfg == ConfigCheck(t, ELEVENLABS_API_KEY, client)
           inp == InputCheck(t, l)
       IN IF cfg # <<>>
          THEN pc' = "done" /\ result' = cfg /\ UNCHANGED processed_lyrics
          ELSE IF inp # <<>>
          THEN pc' = "done" /\ result' = inp /\ UNCHANGED processed_lyrics
          ELSE /\ processed_lyrics' = Normalize(l)
               /\ pc' = FirstStep(t)
               /\ UNCHANGED result
    /\ UNCHANGED <<ELEVENLABS_API_KEY, client, now, files, reports, net, received,
                   audio_bytes, drained, wrote, raised, escaped>>

(* client.voices.get_all(), lines 72-76 *)
Probe(out) ==
    /\ pc = "probe"
    /\ net' = Append(net, [op |-> "voices.get_all", text |-> <<>>])
    /\ IF out = "ok"
       THEN pc' = "generate" /\ UNCHANGED <<raised, escaped, result>>
       ELSE \E e \in UpstreamErrors : Throw("probe", e)
    /\ UNCHANGED <<globals, tool, lyrics, processed_lyrics, received, audio_bytes,
                   drained, wrote>>

(* client.generate(text=processed_lyrics, ...), lines 80-90, 132-142 *)
Generate(out) ==
    /\ pc = "generate"
    /\ net' = Append(net, [op |-> "generate", text |-> processed_lyrics])
    /\ IF out = "ok"
       THEN pc' = "drain" /\ UNCHANGED <<raised, escaped, result>>
       ELSE \E e \in UpstreamErrors : Throw("generate", e)
    /\ UNCHANGED <<globals, tool, lyrics, processed_lyrics, received, audio_bytes,
                   drained, wrote>>

(* b"".join(response) takes one more chunk from the response *)
DrainChunk(c) ==
    /\ pc = "drain"
    /\ Len(received) < MaxChunks
    /\ received' = received \o c
    /\ UNCHANGED <<globals, pc, tool, lyrics, processed_lyrics, net, audio_bytes,
                   drained, wrote, raised, escaped, result>>

(* The response raises while being drained: join() raises, audio_bytes is not bound *)
DrainRaise(e) ==
    /\ pc = "drain"
    /\ drained' = "raised"
    /\ Throw("drain", e)
    /\ UNCHANGED <<globals, tool, lyrics, processed_lyrics, net, received,
                   audio_bytes, wrote>>

(* The check of the drained buffer; only generate_song_base64 has one (line 97) *)
AudioCheck(t, b) ==
    IF t = "generate_song_base64" /\ b = <<>> THEN NoAudio ELSE <<>>

(* The response ends: join() returns; lines 95-105 and 144 *)
DrainEnd ==
    /\ pc = "drain"
    /\ drained' = "end"
    /\ audio_bytes' = received
    /\ IF tool = "generate_song_base64"
       THEN /\ pc' = "done"
            /\ result' = (IF AudioCheck(tool, received) # <<>>
                          THEN AudioCheck(tool, received)
                          ELSE Base64Success(lyrics, received))
       ELSE /\ pc' = "save"
            /\ UNCHANGED result
    /\ UNCHANGED <<globals, tool, lyrics, processed_lyrics, net, received, wrote,
                   raised, escaped>>

(* Lines 146-160: name the file after the current second, write, verify, report *)
SaveFile(out) ==
    /\ pc = "save"
    /\ LET audio_path == AudioPath(now)
       IN CASE out = "ok" ->
                 LET fs == FileWrite(files, audio_path, audio_bytes)
                 IN /\ files' = fs
                    /\ wrote' = TRUE
                    /\ pc' = "done"
                    /\ IF exists(fs, audio_path)
                       THEN /\ result' = FileSuccess(audio_path, getsize(fs, audio_path), lyrics)
                            /\ reports' = reports \cup {[path |-> audio_path, buf |-> audio_bytes]}
                       ELSE /\ result' = NotCreated
                            /\ UNCHANGED reports
                    /\ UNCHANGED <<raised, escaped>>
            [] out = "open_raises" ->
                 /\ \E e \in FileErrors : Throw("open", e)
                 /\ UNCHANGED <<files, wrote, reports>>
            [] out = "write_raises" ->
                 (* open(path, "wb") has truncated the file; part of the data may be on disk *)
                 /\ \E k \in 0 .. Len(audio_bytes) :
                        files' = FileWrite(files, audio_path, SubSeq(audio_bytes, 1, k))
                 /\ wrote' = TRUE
                 /\ \E e \in FileErrors : Throw("write", e)
                 /\ UNCHANGED reports
    /\ UNCHANGED <<ELEVENLABS_API_KEY, client, now, calls, tool, lyrics,
                   processed_lyrics, net, received, audio_bytes, drained>>

(* The call is over: the string went to the caller, the locals are gone *)
Return ==
    /\ pc = "done"
    /\ pc' = "idle"
    /\ tool' = "none"
    /\ lyrics' = <<>>
    /\ processed_lyrics' = <<>>
    /\ net' = <<>>
    /\ received' = <<>>
    /\ audio_bytes' = <<>>
    /\ drained' = "no"
    /\ wrote' = FALSE
    /\ raised' = NoExc
    /\ escaped' = FALSE
    /\ result' = <<>>
    /\ UNCHANGED globals

(* Time passes *)
Tick ==
    /\ now < MaxClock
    /\ now' = now + 1
    /\ UNCHANGED <<ELEVENLABS_API_KEY, client, files, reports, calls, locals>>

(* Lyrics the callers send *)
LyricsInputs ==
    { <<>>,
      <<SP, NL>>,
      <<Letter>>,
      <<SP, Letter, SP, Letter, NL>>,
      <<Letter, SP, Letter, SP, Letter, SP, Letter>>,
      <<Letter, SP, Letter, NL, Letter, SP, Letter, SP, Letter>>,
      <<SP, Letter, SP, SP, Letter, NL, Letter, SP, Letter, SP, Letter, SP, Letter, NL>> }

Outcomes == {"ok", "raises"}
SaveOutcomes == {"ok", "open_raises", "write_raises"}

Next ==
    \/ \E t \in Tools, l \in LyricsInputs : Call(t, l)
    \/ \E o \in Outcomes : Probe(o)
    \/ \E o \in Outcomes : Generate(o)
    \/ \E c \in Chunks : DrainChunk(c)
    \/ \E e \in UpstreamErrors : DrainRaise(e)
    \/ DrainEnd
    \/ \E o \in SaveOutcomes : SaveFile(o)
    \/ Return
    \/ Tick

Spec == Init /\ [][Next]_vars

----------------------------------------------------------------------------
(* Normalization over every short string: one configured call, upstream healthy *)

LyricChars == {Letter, SP, NL}
AllLyrics == UNION {[1 .. n -> LyricChars] : n \in 0 .. MaxLen}

NormInit ==
    /\ Init
    /\ ELEVENLABS_API_KEY = "key"

NormCall ==
    /\ calls = 0
    /\ \E t \in Tools, l \in AllLyrics : Call(t, l)

NormNext ==
    \/ NormCall
    \/ Probe("ok")
    \/ Generate("ok")
    \/ DrainEnd
    \/ SaveFile("ok")
    \/ Return

NormSpec == NormInit /\ [][NormNext]_vars

----------------------------------------------------------------------------
(* Reference definitions used by the properties *)

NonSpaceAt(s) == {i \in 1 .. Len(s) : s[i] \notin Whitespace}
MinOf(S) == CHOOSE x \in S : \A y \in S : x <= y
MaxOf(S) == CHOOSE x \in S : \A y \in S : x >= y

(* the input from its first to its last non-whitespace character *)
RefTrim(s) ==
    IF NonSpaceAt(s) = {} THEN <<>>
    ELSE SubSeq(s, MinOf(NonSpaceAt(s)), MaxOf(NonSpaceAt(s)))

(* a word starts wherever a non-whitespace character follows whitespace or the start *)
RefWordCount(s) ==
    Cardinality({i \in NonSpaceAt(s) : i = 1 \/ s[i - 1] \in Whitespace})

RefNormalize(l) ==
    LET t == RefTrim(l)
        line == <<NOTE, SP>> \o t \o <<SP, NOTE, NL>>
    IN IF RefWordCount(t) < 5 THEN line \o line ELSE t

InCall == pc # "idle"
Returned == pc = "done"
Succeeded == Returned /\ result # <<>> /\ Head(result) = OkMark
Failed == Returned /\ result # <<>> /\ Head(result) = FailMark
SynthesisTexts == {net[i].text : i \in {j \in DOMAIN net : net[j].op = "generate"}}

----------------------------------------------------------------------------
(* Properties *)

(* C1: in both tools and in every configuration, a call whose lyrics are empty
   or all whitespace makes no network call and returns the empty-input failure. *)
C1_EmptyInputRejected ==
    (InCall /\ RefTrim(lyrics) = <<>>) =>
        /\ net = <<>>
        /\ Returned => result = NoLyrics

(* C2: in both tools, when the response was drained to its end and the buffer
   is empty, the call returns the empty-audio failure and never a success report. *)
C2_EmptyAudioRejected ==
    (Returned /\ drained = "end" /\ audio_bytes = <<>>) =>
        /\ result = NoAudio
        /\ ~Succeeded

(* C3: without an API credential there is no client, and every call of either
   tool, for every lyrics, returns a configuration failure without any network
   call or file write: the call goes from its entry straight to its return. *)
C3_NoCredentialNoIO ==
    ELEVENLABS_API_KEY = "" =>
        /\ client = "None"
        /\ net = <<>>
        /\ ~wrote
        /\ \A p \in DOMAIN files : ~files[p].exists
        /\ pc \in {"idle", "done"}
        /\ Returned => Failed /\ result \in {NoKeyBase64, NoKeyFile, NoClient}

C3_Witness ==
    /\ ELEVENLABS_API_KEY = ""
    /\ Returned
    /\ tool = "generate_song_file"
    /\ RefWordCount(lyrics) >= 5
    /\ result = NoKeyFile

(* C4: in both tools the text of the synthesis request is the reference
   normalization of the input: two lines "note, trimmed text, note" when the
   trimmed input has fewer than 5 words, the trimmed input itself otherwise. *)
C4_SentTextIsNormalization ==
    \A x \in SynthesisTexts : x = RefNormalize(lyrics)

C4_Witness ==
    /\ tool = "generate_song_file"
    /\ pc = "drain"
    /\ SynthesisTexts # {}
    /\ RefWordCount(RefTrim(lyrics)) = 4
    /\ RefTrim(lyrics) # lyrics

(* C5: every text passed to the synthesis request has at least 5
   whitespace-separated words. *)
C5_AtLeastFiveWords ==
    \A x \in SynthesisTexts : RefWordCount(x) >= 5

(* C6: when generate_song_file returns a success report, the reported path
   exists and the reported size is the length of the buffer drained from the
   response in that call. *)
C6_FileReportMatchesDisk ==
    (Succeeded /\ tool = "generate_song_file") =>
        /\ files[result[3]].exists
        /\ drained = "end"
        /\ result[4] = Len(received)

C6_Witness ==
    /\ Succeeded
    /\ tool = "generate_song_file"
    /\ Len(received) = 2
    /\ result[4] = 2

(* C7: no exception leaves a tool: a call always ends by returning one string,
   and the string starts with the failure marker whenever an exception was
   raised at any step or the call ended before the response was drained. *)
C7_NoExceptionEscapes ==
    /\ ~escaped
    /\ Returned =>
        /\ result # <<>>
        /\ Head(result) \in {OkMark, FailMark}
        /\ (raised # NoExc \/ drained # "end") => Head(result) = FailMark

C7_Witness ==
    /\ Returned
    /\ tool = "generate_song_file"
    /\ raised.step = "write"
    /\ Failed

(* C8: in generate_song_base64 the voice-list probe precedes the synthesis
   request, and when the probe raises the call returns the connection failure
   without a synthesis request. *)
C8_ProbeBeforeSynthesis ==
    tool = "generate_song_base64" =>
        /\ \A i \in DOMAIN net :
               net[i].op = "generate" => (i > 1 /\ net[1].op = "voices.get_all")
        /\ raised.step = "probe" =>
               /\ Returned
               /\ result = ConnectError(raised)
               /\ SynthesisTexts = {}

C8_Witness ==
    /\ tool = "generate_song_base64"
    /\ raised.step = "probe"
    /\ Returned
    /\ Len(net) = 1

(* C9: a partially drained buffer is never surfaced: when the response raises
   while being drained the call returns a failure and writes no file, and a
   success report or a file write happens only after the response was drained
   to its end, with the whole buffer. *)
C9_NoPartialBuffer ==
    /\ drained = "raised" => (Failed /\ ~wrote)
    /\ (wrote \/ Succeeded) => (drained = "end" /\ audio_bytes = received)

C9_Witness ==
    /\ drained = "raised"
    /\ Len(received) > 0
    /\ Returned
    /\ tool = "generate_song_base64"

(* C10: calls of generate_song_file are independent: the file reported by an
   earlier successful call still holds the buffer of that call, also when two
   calls fall in the same second. *)
C10_CallsIndependent ==
    \A r \in reports : files[r.path].exists /\ files[r.path].data = r.buf

====
